---- MODULE Spec2Model ----
(***************************************************************************)
(* Model of src/read_schedule.py: the Schedule class, its validity         *)
(* predicate is_valid_assignment and the greedy fill greedy_schedule.      *)
(* One run of greedy_schedule on one instance is a behaviour; each step    *)
(* of its two nested loops is an action.                                   *)
(***************************************************************************)
EXTENDS Integers, Sequences, FiniteSets, TLC

\* ------------------------------------------------------------------------
\* Bounds of the instances the model enumerates
\* ------------------------------------------------------------------------
MaxDay == 2
MaxRequired == 2
MaxWeight == 2
MaxConsec == 2
MaxCap == 1

Days == 0..MaxDay
ShiftIds == {"D", "N"}
StaffIds == {"S1", "S2"}

EmptyMap == [x \in {} |-> 0]

\* ------------------------------------------------------------------------
\* Data: Assignment (dataclass), dictionaries as partial functions
\* ------------------------------------------------------------------------
Assignment(staff_id, day, shift_id) ==
    [staff_id |-> staff_id, day |-> day, shift_id |-> shift_id]

\* dict.get(key, default)
DictGet(d, k, default) == IF k \in DOMAIN d THEN d[k] ELSE default

\* d[k] = v on a dict: adds the key or replaces its value
DictSet(d, k, v) == [x \in (DOMAIN d) \cup {k} |-> IF x = k THEN v ELSE d[x]]

\* reading d[k] on a defaultdict(list): a missing key is created with []
DefaultTouch(d, k) == IF k \in DOMAIN d THEN d ELSE DictSet(d, k, <<>>)

\* shifts_dict = {shift['id']: shift for shift in instance_data['shifts']}
ShiftsDict(inst) ==
    [id \in {inst.shifts[i].id : i \in 1..Len(inst.shifts)} |->
        LET last == CHOOSE i \in 1..Len(inst.shifts) :
                        /\ inst.shifts[i].id = id
                        /\ \A j \in (i+1)..Len(inst.shifts) : inst.shifts[j].id # id
        IN inst.shifts[last]]

\* next(s for s in instance_data['staff'] if s['id'] == staff_id)
FindStaff(inst, staff_id) ==
    LET first == CHOOSE i \in 1..Len(inst.staff) :
                    /\ inst.staff[i].id = staff_id
                    /\ \A j \in 1..(i-1) : inst.staff[j].id # staff_id
    IN inst.staff[first]

\* ------------------------------------------------------------------------
\* is_valid_assignment, check by check
\* ------------------------------------------------------------------------
\* variant: the days-off list read as 1-based day numbers
DayOffConflictOneBased(inst, a) ==
    (a.day + 1) \in DictGet(inst.days_off, a.staff_id, {})

\* day in instance_data['days_off'].get(staff_id, [])
DayOffConflict(inst, a) == a.day \in DictGet(inst.days_off, a.staff_id, {})

\* sum(1 for a in staff_assignments[staff_id] if a.shift_id == shift_id)
CurrentCount(list, shift_id) ==
    Cardinality({i \in 1..Len(list) : list[i].shift_id = shift_id})

\* variant: the cap compared with > instead of >=
QuotaReachedStrict(inst, list, a) ==
    LET staff == FindStaff(inst, a.staff_id)
    IN /\ a.shift_id \in DOMAIN staff.shift_limits
       /\ CurrentCount(list, a.shift_id) > staff.shift_limits[a.shift_id]

QuotaReached(inst, list, a) ==
    LET staff == FindStaff(inst, a.staff_id)
    IN /\ a.shift_id \in DOMAIN staff.shift_limits
       /\ CurrentCount(list, a.shift_id) >= staff.shift_limits[a.shift_id]

\* variant: the check against every assignment of the previous day
ForbiddenAfterAnyPrevious(inst, list, a) ==
    \E i \in 1..Len(list) :
        /\ list[i].day = a.day - 1
        /\ a.shift_id \in ShiftsDict(inst)[list[i].shift_id].forbidden_following

\* the check against the trailing element of the per-staff list
ForbiddenAfterLast(inst, list, a) ==
    /\ Len(list) > 0
    /\ LET last_assignment == list[Len(list)]
       IN /\ last_assignment.day = a.day - 1
          /\ a.shift_id \in ShiftsDict(inst)[last_assignment.shift_id].forbidden_following

\* for prev_day in range(day - 1, -1, -1): count while some assignment is on prev_day
RECURSIVE ConsecutiveWalk(_, _, _)
ConsecutiveWalk(list, prev_day, consecutive_count) ==
    IF prev_day < 0
    THEN consecutive_count
    ELSE IF \E i \in 1..Len(list) : list[i].day = prev_day
         THEN ConsecutiveWalk(list, prev_day - 1, consecutive_count + 1)
         ELSE consecutive_count

\* variant: the candidate's own day not counted
ConsecutiveCountFromZero(list, day) == ConsecutiveWalk(list, day - 1, 0)

\* consecutive_count = 1, then the walk from day - 1
ConsecutiveCount(list, day) == ConsecutiveWalk(list, day - 1, 1)

\* variant: the limit compared one too high
TooManyConsecutiveLoose(inst, list, a) ==
    ConsecutiveCount(list, a.day) > FindStaff(inst, a.staff_id).max_consecutive_shifts + 1

TooManyConsecutive(inst, list, a) ==
    ConsecutiveCount(list, a.day) > FindStaff(inst, a.staff_id).max_consecutive_shifts

\* the value is_valid_assignment returns in a schedule whose per-staff index is sa
IsValidAssignment(inst, sa, a) ==
    LET list == DictGet(sa, a.staff_id, <<>>)
    IN IF DayOffConflict(inst, a) THEN FALSE
       ELSE IF QuotaReached(inst, list, a) THEN FALSE
       ELSE IF ForbiddenAfterLast(inst, list, a) THEN FALSE
       ELSE IF TooManyConsecutive(inst, list, a) THEN FALSE
       ELSE TRUE

\* the per-staff index after a call of is_valid_assignment: past the days-off
\* check the call reads staff_assignments[staff_id], a defaultdict
AfterValidityCheck(inst, sa, a) ==
    IF DayOffConflict(inst, a) THEN sa ELSE DefaultTouch(sa, a.staff_id)

\* ------------------------------------------------------------------------
\* sorted(cover_requirements, key=weight_under, reverse=True): stable
\* ------------------------------------------------------------------------
\* variant: a sort that is not stable, a tie goes before the equal weights
RECURSIVE InsertByWeightUnstable(_, _)
InsertByWeightUnstable(sorted, req) ==
    IF sorted = <<>>
    THEN <<req>>
    ELSE IF Head(sorted).weight_under > req.weight_under
         THEN <<Head(sorted)>> \o InsertByWeightUnstable(Tail(sorted), req)
         ELSE <<req>> \o sorted

RECURSIVE InsertByWeight(_, _)
InsertByWeight(sorted, req) ==
    IF sorted = <<>>
    THEN <<req>>
    ELSE IF Head(sorted).weight_under >= req.weight_under
         THEN <<Head(sorted)>> \o InsertByWeight(Tail(sorted), req)
         ELSE <<req>> \o sorted

RECURSIVE SortedByWeight(_)
SortedByWeight(reqs) ==
    IF reqs = <<>>
    THEN <<>>
    ELSE InsertByWeight(SortedByWeight(SubSeq(reqs, 1, Len(reqs) - 1)), reqs[Len(reqs)])

\* ------------------------------------------------------------------------
\* Instances
\* ------------------------------------------------------------------------
Requirement(day, shift_id, requirement, weight_under) ==
    [day |-> day, shift_id |-> shift_id,
     requirement |-> requirement, weight_under |-> weight_under]

LimitMaps ==
    {EmptyMap} \cup { [x \in {s} |-> c] : s \in ShiftIds, c \in 1..MaxCap }

StaffMember(id, limits, maxc) ==
    [id |-> id, shift_limits |-> limits, max_consecutive_shifts |-> maxc]

Shift(id, forbidden) == [id |-> id, forbidden_following |-> forbidden]

NoForbidden == << Shift("D", {}), Shift("N", {}) >>

\* one forbidden succession
ShiftLists ==
    { << Shift("D", {s}), Shift("N", {}) >> : s \in ShiftIds }
    \cup { << Shift("D", {}), Shift("N", {s}) >> : s \in ShiftIds }

\* one day off
DaysOffMaps == { [x \in {id} |-> {d}] : id \in StaffIds, d \in Days }

\* one quota, of S1 or of S2
LimitPairs ==
    { << l, EmptyMap >> : l \in LimitMaps \ {EmptyMap} }
    \cup { << EmptyMap, l >> : l \in LimitMaps \ {EmptyMap} }

\* the constrained part of a roster instance: at most one constraint besides
\* the consecutive-shift limits
Constraints ==
    { [limits |-> << EmptyMap, EmptyMap >>, shifts |-> NoForbidden, days_off |-> EmptyMap] }
    \cup { [limits |-> lp, shifts |-> NoForbidden, days_off |-> EmptyMap] : lp \in LimitPairs }
    \cup { [limits |-> << EmptyMap, EmptyMap >>, shifts |-> sh, days_off |-> EmptyMap] :
            sh \in ShiftLists }
    \cup { [limits |-> << EmptyMap, EmptyMap >>, shifts |-> NoForbidden, days_off |-> off] :
            off \in DaysOffMaps }

RosterRequirements ==
    { Requirement(d, s, r, MaxWeight) : d \in Days, s \in ShiftIds, r \in 1..MaxRequired }

\* two staff members S1, S2 in that order, two shifts, one or two requirements
\* of equal weight
RosterInstances ==
    { [staff |-> << StaffMember("S1", c.limits[1], m1),
                    StaffMember("S2", c.limits[2], m2) >>,
       shifts |-> c.shifts,
       days_off |-> c.days_off,
       cover_requirements |-> reqs] :
        c \in Constraints, m1 \in 1..MaxConsec, m2 \in 1..MaxConsec,
        reqs \in { <<r>> : r \in RosterRequirements }
                 \cup { << r1, r2 >> : r1 \in RosterRequirements, r2 \in RosterRequirements } }

\* the lists of one requirement (of one, any weight) per day of a set of days,
\* in every order
RECURSIVE DayLists(_)
DayLists(days) ==
    {<<>>} \cup
    UNION { { <<Requirement(d, "D", 1, w)>> \o rest : rest \in DayLists(days \ {d}) } :
            d \in days, w \in 1..MaxWeight }

\* one staff member S1 and one shift D, at most one requirement per day
SingleStaffInstances ==
    { [staff |-> << StaffMember("S1", EmptyMap, m) >>,
       shifts |-> << Shift("D", f) >>,
       days_off |-> EmptyMap,
       cover_requirements |-> reqs] :
        m \in 0..(MaxDay + 1), f \in {{}, {"D"}}, reqs \in DayLists(Days) \ {<<>>} }

Instances == RosterInstances \cup SingleStaffInstances

\* ------------------------------------------------------------------------
\* State
\* ------------------------------------------------------------------------
VARIABLES
    instance_data,          \* the instance, never changed
    assignments,            \* Schedule.assignments
    staff_assignments,      \* Schedule.staff_assignments (defaultdict)
    day_shift_assignments,  \* Schedule.day_shift_assignments (defaultdict)
    cover_requirements,     \* greedy_schedule's sorted list
    pc,                     \* "start", "req", "staff", "done"
    req_i,                  \* position of the outer for loop
    staff_i,                \* position of the inner for loop
    needed,                 \* greedy_schedule's local
    result                  \* "none" while running, then "True" or "False"

vars == << instance_data, assignments, staff_assignments, day_shift_assignments,
           cover_requirements, pc, req_i, staff_i, needed, result >>

Init ==
    /\ instance_data \in Instances
    /\ assignments = <<>>
    /\ staff_assignments = EmptyMap
    /\ day_shift_assignments = EmptyMap
    /\ cover_requirements = <<>>
    /\ pc = "start"
    /\ req_i = 1
    /\ staff_i = 1
    /\ needed = 0
    /\ result = "none"

\* lines 65-69
SortRequirements ==
    /\ pc = "start"
    /\ cover_requirements' = SortedByWeight(instance_data.cover_requirements)
    /\ pc' = "req"
    /\ UNCHANGED << instance_data, assignments, staff_assignments,
                    day_shift_assignments, req_i, staff_i, needed, result >>

Req == cover_requirements[req_i]

\* variant: the assignments already on the (day, shift) pair not subtracted
NeededIgnoringExisting(dsa, req) == req.requirement

\* required - len(day_shift_assignments.get((day, shift_id), []))
NeededFor(dsa, req) ==
    req.requirement - Len(DictGet(dsa, << req.day, req.shift_id >>, <<>>))

\* lines 72-82 with needed <= 0: continue
SkipRequirement ==
    /\ pc = "req"
    /\ req_i <= Len(cover_requirements)
    /\ NeededFor(day_shift_assignments, Req) <= 0
    /\ needed' = NeededFor(day_shift_assignments, Req)
    /\ req_i' = req_i + 1
    /\ UNCHANGED << instance_data, assignments, staff_assignments,
                    day_shift_assignments, cover_requirements, pc, staff_i, result >>

\* lines 72-85 with needed > 0: enter the staff loop
BeginRequirement ==
    /\ pc = "req"
    /\ req_i <= Len(cover_requirements)
    /\ NeededFor(day_shift_assignments, Req) > 0
    /\ needed' = NeededFor(day_shift_assignments, Req)
    /\ staff_i' = 1
    /\ pc' = "staff"
    /\ UNCHANGED << instance_data, assignments, staff_assignments,
                    day_shift_assignments, cover_requirements, req_i, result >>

\* variant: the staff list walked from its end
CandidateReversed ==
    Assignment(instance_data.staff[Len(instance_data.staff) + 1 - staff_i].id,
               Req.day, Req.shift_id)

Candidate ==
    Assignment(instance_data.staff[staff_i].id, Req.day, Req.shift_id)

StaffLoopRuns ==
    /\ pc = "staff"
    /\ staff_i <= Len(instance_data.staff)
    /\ needed > 0

\* variant: after a commit the same staff member is tried again
CommitAssignmentRetry ==
    /\ StaffLoopRuns
    /\ IsValidAssignment(instance_data, staff_assignments, Candidate)
    /\ LET a == Candidate
           key == << a.day, a.shift_id >>
           sa == AfterValidityCheck(instance_data, staff_assignments, a)
       IN /\ assignments' = Append(assignments, a)
          /\ staff_assignments' =
                DictSet(sa, a.staff_id, Append(DictGet(sa, a.staff_id, <<>>), a))
          /\ day_shift_assignments' =
                DictSet(day_shift_assignments, key,
                        Append(DictGet(day_shift_assignments, key, <<>>), a))
    /\ needed' = needed - 1
    /\ UNCHANGED << instance_data, cover_requirements, pc, req_i, staff_i, result >>

\* lines 85-102, the candidate is valid: the three appends and needed -= 1
CommitAssignment ==
    /\ StaffLoopRuns
    /\ IsValidAssignment(instance_data, staff_assignments, Candidate)
    /\ LET a == Candidate
           key == << a.day, a.shift_id >>
           sa == AfterValidityCheck(instance_data, staff_assignments, a)
       IN /\ assignments' = Append(assignments, a)
          /\ staff_assignments' =
                DictSet(sa, a.staff_id, Append(DictGet(sa, a.staff_id, <<>>), a))
          /\ day_shift_assignments' =
                DictSet(day_shift_assignments, key,
                        Append(DictGet(day_shift_assignments, key, <<>>), a))
    /\ needed' = needed - 1
    /\ staff_i' = staff_i + 1
    /\ UNCHANGED << instance_data, cover_requirements, pc, req_i, result >>

\* lines 85-97, the candidate is not valid: next staff member
RejectCandidate ==
    /\ StaffLoopRuns
    /\ ~IsValidAssignment(instance_data, staff_assignments, Candidate)
    /\ staff_assignments' =
            AfterValidityCheck(instance_data, staff_assignments, Candidate)
    /\ staff_i' = staff_i + 1
    /\ UNCHANGED << instance_data, assignments, day_shift_assignments,
                    cover_requirements, pc, req_i, needed, result >>

StaffLoopOver ==
    /\ pc = "staff"
    /\ (staff_i > Len(instance_data.staff) \/ needed <= 0)

\* lines 86-87 / end of the staff list, then line 105 with needed <= 0
RequirementFilled ==
    /\ StaffLoopOver
    /\ needed <= 0
    /\ req_i' = req_i + 1
    /\ pc' = "req"
    /\ UNCHANGED << instance_data, assignments, staff_assignments,
                    day_shift_assignments, cover_requirements, staff_i, needed, result >>

\* variant: an unmet requirement is remembered and the loop goes on
ReturnFalseContinue ==
    /\ StaffLoopOver
    /\ needed > 0
    /\ req_i' = req_i + 1
    /\ pc' = "req"
    /\ UNCHANGED << instance_data, assignments, staff_assignments,
                    day_shift_assignments, cover_requirements, staff_i, needed, result >>

\* variant: the verdict of an unmet requirement inverted
ReturnFalseAsTrue ==
    /\ StaffLoopOver
    /\ needed > 0
    /\ result' = "True"
    /\ pc' = "done"
    /\ UNCHANGED << instance_data, assignments, staff_assignments,
                    day_shift_assignments, cover_requirements, req_i, staff_i, needed >>

\* variant: the assignments of the unmet requirement are taken back
ReturnFalseWithRollback ==
    /\ StaffLoopOver
    /\ needed > 0
    /\ result' = "False"
    /\ pc' = "done"
    /\ assignments' = SelectSeq(assignments,
            LAMBDA a : << a.day, a.shift_id >> # << cover_requirements[req_i].day,
                                                     cover_requirements[req_i].shift_id >>)
    /\ UNCHANGED << instance_data, staff_assignments,
                    day_shift_assignments, cover_requirements, req_i, staff_i, needed >>

\* lines 105-106
ReturnFalse ==
    /\ StaffLoopOver
    /\ needed > 0
    /\ result' = "False"
    /\ pc' = "done"
    /\ UNCHANGED << instance_data, assignments, staff_assignments,
                    day_shift_assignments, cover_requirements, req_i, staff_i, needed >>

\* line 108
ReturnTrue ==
    /\ pc = "req"
    /\ req_i > Len(cover_requirements)
    /\ result' = "True"
    /\ pc' = "done"
    /\ UNCHANGED << instance_data, assignments, staff_assignments,
                    day_shift_assignments, cover_requirements, req_i, staff_i, needed >>

Next ==
    \/ SortRequirements
    \/ SkipRequirement
    \/ BeginRequirement
    \/ CommitAssignment
    \/ RejectCandidate
    \/ RequirementFilled
    \/ ReturnFalse
    \/ ReturnTrue

Spec == Init /\ [][Next]_vars

\* ------------------------------------------------------------------------
\* Vocabulary of the properties
\* ------------------------------------------------------------------------
StaffList == { instance_data.staff[i] : i \in 1..Len(instance_data.staff) }

\* the committed assignments of a staff member, as positions of the flat list
CommittedOf(staff_id) ==
    { i \in 1..Len(assignments) : assignments[i].staff_id = staff_id }

WorkedDays(staff_id) == { assignments[i].day : i \in CommittedOf(staff_id) }

\* some k calendar-consecutive days are all worked
HasRun(staff_id, k) ==
    \E d \in WorkedDays(staff_id) :
        \A j \in 0..(k - 1) : (d + j) \in WorkedDays(staff_id)

ForbiddenFollowing(shift_id) ==
    LET i == CHOOSE i \in 1..Len(instance_data.shifts) : instance_data.shifts[i].id = shift_id
    IN instance_data.shifts[i].forbidden_following

\* the number of committed assignments on a (day, shift) pair in the index
Covered(req) ==
    Len(DictGet(day_shift_assignments, << req.day, req.shift_id >>, <<>>))

Running == pc \in {"req", "staff"}

\* C1: for every staff member the longest run of calendar-consecutive worked
\* days never exceeds max_consecutive_shifts.
C1_ConsecutiveRunBound ==
    \A s \in StaffList : ~HasRun(s.id, s.max_consecutive_shifts + 1)

\* C2: for every staff member and every pair of committed assignments on days
\* d and d+1, the later shift is not forbidden after the earlier one, whatever
\* the order in which the two were committed.
C2_NoForbiddenSuccession ==
    \A i, j \in 1..Len(assignments) :
        ( /\ assignments[i].staff_id = assignments[j].staff_id
          /\ assignments[j].day = assignments[i].day + 1 )
        => assignments[j].shift_id \notin ForbiddenFollowing(assignments[i].shift_id)

\* C3 as stated: every requirement of the priority order is attempted, also
\* after an earlier one ended unmet; so at the return the loop has reached the
\* last requirement.
C3_EveryRequirementAttempted ==
    pc = "done" => req_i >= Len(cover_requirements)

\* C3 amended: greedy_schedule stops at the first unmet requirement. Every
\* requirement before the loop position is covered, a False verdict ends the
\* run at the unmet requirement, and nothing is committed for a later one.
C3_StopsAtFirstUnmet ==
    /\ \A j \in 1..Len(cover_requirements) :
            j < req_i => Covered(cover_requirements[j]) >= cover_requirements[j].requirement
    /\ result = "False" =>
            /\ pc = "done"
            /\ req_i <= Len(cover_requirements)
            /\ Covered(cover_requirements[req_i]) < cover_requirements[req_i].requirement
            /\ \A i \in 1..Len(assignments) :
                    \E j \in 1..req_i :
                        /\ cover_requirements[j].day = assignments[i].day
                        /\ cover_requirements[j].shift_id = assignments[i].shift_id

\* a False verdict with a requirement left that was never attempted
C3_Witness ==
    /\ pc = "done"
    /\ result = "False"
    /\ req_i < Len(cover_requirements)
    /\ Covered(cover_requirements[Len(cover_requirements)]) = 0

\* C4: greedy_schedule returns True exactly when, at the return, every
\* coverage requirement of the instance has at least its required count of
\* assignments in the per-(day, shift) index, and False otherwise.
C4_VerdictIffCovered ==
    pc = "done" =>
        /\ result \in {"True", "False"}
        /\ result = "True" <=>
            \A k \in 1..Len(instance_data.cover_requirements) :
                Covered(instance_data.cover_requirements[k])
                    >= instance_data.cover_requirements[k].requirement

\* a True verdict after two requirements were filled by commits
C4_Witness ==
    /\ pc = "done"
    /\ result = "True"
    /\ Len(instance_data.cover_requirements) = 2
    /\ Len(assignments) >= 2

\* C5: for every staff member and every shift id with a cap, the number of
\* committed assignments of the staff member to that shift is at most the cap.
C5_QuotaRespected ==
    \A s \in StaffList : \A sh \in DOMAIN s.shift_limits :
        Cardinality({ i \in CommittedOf(s.id) : assignments[i].shift_id = sh })
            <= s.shift_limits[sh]

\* a staff member at the cap is the candidate for the capped shift once more
C5_Witness ==
    /\ StaffLoopRuns
    /\ LET s == instance_data.staff[staff_i]
       IN /\ Req.shift_id \in DOMAIN s.shift_limits
          /\ Cardinality({ i \in CommittedOf(s.id) : assignments[i].shift_id = Req.shift_id })
                = s.shift_limits[Req.shift_id]
          /\ s.shift_limits[Req.shift_id] >= 1

\* C6: no committed assignment is on a day off of its staff member.
C6_DaysOffExcluded ==
    \A i \in 1..Len(assignments) :
        assignments[i].day \notin
            DictGet(instance_data.days_off, assignments[i].staff_id, {})

\* the candidate is on a day off of the staff member, who works another day
C6_Witness ==
    /\ StaffLoopRuns
    /\ Req.day \in DictGet(instance_data.days_off, instance_data.staff[staff_i].id, {})
    /\ CommittedOf(instance_data.staff[staff_i].id) # {}

\* the number of occurrences of an assignment in a list
CountIn(list, a) == Cardinality({ i \in 1..Len(list) : list[i] = a })

\* the number of occurrences of an assignment in the lists of an index
RECURSIVE CountInIndex(_, _, _)
CountInIndex(index, keys, a) ==
    IF keys = {}
    THEN 0
    ELSE LET k == CHOOSE k \in keys : TRUE
         IN CountIn(index[k], a) + CountInIndex(index, keys \ {k}, a)

RECURSIVE TotalLen(_, _)
TotalLen(index, keys) ==
    IF keys = {}
    THEN 0
    ELSE LET k == CHOOSE k \in keys : TRUE
         IN Len(index[k]) + TotalLen(index, keys \ {k})

AllFiled ==
    { assignments[i] : i \in 1..Len(assignments) }
    \cup UNION { { staff_assignments[k][i] : i \in 1..Len(staff_assignments[k]) } :
                 k \in DOMAIN staff_assignments }
    \cup UNION { { day_shift_assignments[k][i] : i \in 1..Len(day_shift_assignments[k]) } :
                 k \in DOMAIN day_shift_assignments }

\* the three structures hold the same assignments with the same multiplicities,
\* each under its own keys, and their sizes agree
LockStep ==
    /\ \A a \in AllFiled :
        /\ CountIn(assignments, a)
                = CountInIndex(staff_assignments, DOMAIN staff_assignments, a)
        /\ CountIn(assignments, a)
                = CountInIndex(day_shift_assignments, DOMAIN day_shift_assignments, a)
    /\ \A k \in DOMAIN staff_assignments : \A i \in 1..Len(staff_assignments[k]) :
            staff_assignments[k][i].staff_id = k
    /\ \A k \in DOMAIN day_shift_assignments : \A i \in 1..Len(day_shift_assignments[k]) :
            << day_shift_assignments[k][i].day, day_shift_assignments[k][i].shift_id >> = k
    /\ Len(assignments) = TotalLen(staff_assignments, DOMAIN staff_assignments)
    /\ Len(assignments) = TotalLen(day_shift_assignments, DOMAIN day_shift_assignments)

\* C7: the flat list, the per-staff lists and the per-(day, shift) lists hold
\* the same assignments with the same multiplicities, each under its own staff
\* id and (day, shift) key, their sizes agree, and each (staff, day, shift)
\* assignment occurs exactly once in each structure.
C7_IndexConsistency ==
    /\ LockStep
    /\ \A a \in AllFiled :
        /\ CountIn(assignments, a) = 1
        /\ CountInIndex(staff_assignments, DOMAIN staff_assignments, a) = 1
        /\ CountInIndex(day_shift_assignments, DOMAIN day_shift_assignments, a) = 1

\* C8: an unmet requirement is reported by the False verdict alone and nothing
\* is rolled back: every step keeps the assignment list as a prefix of the new
\* one, and the step that returns False leaves all three structures as they are.
C8_NoRollback ==
    [][ /\ Len(assignments') >= Len(assignments)
        /\ SubSeq(assignments', 1, Len(assignments)) = assignments
        /\ (result = "none" /\ result' # "none") =>
                /\ pc' = "done"
                /\ assignments' = assignments
                /\ staff_assignments' = staff_assignments
                /\ day_shift_assignments' = day_shift_assignments
                /\ result' = "False" <=> needed > 0 ]_vars

\* a False verdict with assignments of an earlier requirement and of the unmet
\* requirement itself still in place
C8_Witness ==
    /\ result = "False"
    /\ \E i \in 1..Len(assignments) :
            << assignments[i].day, assignments[i].shift_id >> = << Req.day, Req.shift_id >>
    /\ \E i \in 1..Len(assignments) :
            << assignments[i].day, assignments[i].shift_id >> # << Req.day, Req.shift_id >>

\* the instances of the scenario: one staff member with no quota and no day
\* off, one shift with nothing forbidden, and requirements of one, of equal
\* weight, on days 0..max_consecutive_shifts in day order
IsScenario ==
    LET inst == instance_data
        m == inst.staff[1].max_consecutive_shifts
        reqs == inst.cover_requirements
    IN /\ Len(inst.staff) = 1
       /\ DOMAIN inst.staff[1].shift_limits = {}
       /\ DictGet(inst.days_off, inst.staff[1].id, {}) = {}
       /\ Len(inst.shifts) = 1
       /\ inst.shifts[1].forbidden_following = {}
       /\ Len(reqs) = m + 1
       /\ \A i \in 1..Len(reqs) :
            /\ reqs[i].day = i - 1
            /\ reqs[i].shift_id = inst.shifts[1].id
            /\ reqs[i].requirement = 1
            /\ reqs[i].weight_under = reqs[1].weight_under

\* C9: in the scenario with max_consecutive_shifts = m, greedy_schedule commits
\* exactly the days 0..m-1 in that order, rejects the candidate of day m, and
\* returns False.
C9_Scenario ==
    IsScenario =>
        LET s == instance_data.staff[1]
            m == s.max_consecutive_shifts
            sh == instance_data.shifts[1].id
        IN /\ Len(assignments) <= m
           /\ \A i \in 1..Len(assignments) : assignments[i] = Assignment(s.id, i - 1, sh)
           /\ (StaffLoopRuns /\ Req.day = m) =>
                /\ Len(assignments) = m
                /\ ~IsValidAssignment(instance_data, staff_assignments, Candidate)
           /\ pc = "done" => (result = "False" /\ Len(assignments) = m /\ Req.day = m)

\* the scenario of the text, m = 2, at its return
C9_Witness ==
    /\ IsScenario
    /\ instance_data.staff[1].max_consecutive_shifts = 2
    /\ pc = "done"
    /\ Len(assignments) = 2

\* the days a candidate may name
CandidateDays == 0..(MaxDay + 1)

\* C10: is_valid_assignment returns True exactly when (1) the day is no day off
\* of the staff member, (2) the shift has no cap or the staff member's count of
\* it is below the cap, (3) the staff member's most recently inserted
\* assignment is not on day-1 with the candidate's shift forbidden after it,
\* and (4) one plus the number of worked days found walking backward from day-1
\* is at most max_consecutive_shifts.
C10_ValidityConditions ==
    \A s \in StaffList : \A day \in CandidateDays :
    \A k \in 1..Len(instance_data.shifts) :
        LET sh == instance_data.shifts[k].id
            list == DictGet(staff_assignments, s.id, <<>>)
            worked(d) == \E i \in 1..Len(list) : list[i].day = d
            walked == Cardinality({ n \in 1..day : \A j \in 1..n : worked(day - j) })
            c1 == day \notin DictGet(instance_data.days_off, s.id, {})
            c2 == \/ sh \notin DOMAIN s.shift_limits
                  \/ Cardinality({ i \in 1..Len(list) : list[i].shift_id = sh })
                        < s.shift_limits[sh]
            c3 == ~ /\ Len(list) > 0
                    /\ list[Len(list)].day = day - 1
                    /\ sh \in ForbiddenFollowing(list[Len(list)].shift_id)
            c4 == 1 + walked <= s.max_consecutive_shifts
        IN IsValidAssignment(instance_data, staff_assignments, Assignment(s.id, day, sh))
                <=> (c1 /\ c2 /\ c3 /\ c4)

\* the candidate is accepted although an assignment of the staff member on the
\* previous day, not the most recently inserted one, forbids its shift
C10_Witness ==
    /\ StaffLoopRuns
    /\ IsValidAssignment(instance_data, staff_assignments, Candidate)
    /\ LET list == DictGet(staff_assignments, Candidate.staff_id, <<>>)
       IN \E i \in 1..Len(list) :
            /\ list[i].day = Candidate.day - 1
            /\ Candidate.shift_id \in ForbiddenFollowing(list[i].shift_id)

\* C11: each staff member's per-staff list is ascending in day in insertion
\* order.
C11_PerStaffDayAscending ==
    \A k \in DOMAIN staff_assignments :
        \A i, j \in 1..Len(staff_assignments[k]) :
            i < j => staff_assignments[k][i].day <= staff_assignments[k][j].day

\* the requirements as the instance lists them
InputRequirements == instance_data.cover_requirements

\* requirement i of the input has priority over requirement j
HasPriority(i, j) ==
    \/ InputRequirements[i].weight_under > InputRequirements[j].weight_under
    \/ /\ InputRequirements[i].weight_under = InputRequirements[j].weight_under
       /\ i < j

\* the place of requirement i of the input in the priority order
PriorityRank(i) ==
    1 + Cardinality({ j \in 1..Len(InputRequirements) : HasPriority(j, i) })

\* C12: the requirements are processed by descending weight_under with ties in
\* input order, and assignments are committed in that order: the list the loop
\* walks is the input in priority order, the loop position never goes back,
\* and every commit is for the requirement at the loop position.
C12_PriorityOrder ==
    /\ [](pc # "start" =>
            /\ Len(cover_requirements) = Len(InputRequirements)
            /\ \A i \in 1..Len(InputRequirements) :
                    cover_requirements[PriorityRank(i)] = InputRequirements[i])
    /\ [][ /\ pc # "start" => cover_requirements' = cover_requirements
           /\ req_i' >= req_i
           /\ Len(assignments') > Len(assignments) =>
                /\ req_i' = req_i
                /\ req_i <= Len(cover_requirements)
                /\ assignments'[Len(assignments')].day = cover_requirements[req_i].day
                /\ assignments'[Len(assignments')].shift_id = cover_requirements[req_i].shift_id
         ]_vars

\* three requirements with weights low, high, low were all filled: the second
\* of the input first, then the first and the third in input order
C12_Witness ==
    /\ pc = "done"
    /\ Len(InputRequirements) = 3
    /\ InputRequirements[1].weight_under < InputRequirements[2].weight_under
    /\ InputRequirements[1].weight_under = InputRequirements[3].weight_under
    /\ Len(assignments) = 3
    /\ assignments[1].day = InputRequirements[2].day
    /\ assignments[2].day = InputRequirements[1].day

\* the candidate of the j-th staff member for the requirement at the loop position
CandidateOf(j) ==
    Assignment(instance_data.staff[j].id,
               cover_requirements[req_i].day, cover_requirements[req_i].shift_id)

\* C13: within one requirement the fill is first-fit over the staff list: the
\* staff loop starts at the first staff member and moves one place at a time,
\* the member at the loop position is committed exactly when is_valid_assignment
\* accepts the candidate, nobody is tried once needed is 0, and every member
\* before the loop position was committed for the requirement or is rejected.
C13_FirstFit ==
    /\ [](pc = "staff" =>
            \A j \in 1..Len(instance_data.staff) :
                j < staff_i =>
                    LET list == DictGet(staff_assignments, instance_data.staff[j].id, <<>>)
                    IN \/ Len(list) > 0 /\ list[Len(list)] = CandidateOf(j)
                       \/ ~IsValidAssignment(instance_data, staff_assignments, CandidateOf(j)))
    /\ [][ /\ (pc = "req" /\ pc' = "staff") => staff_i' = 1
           /\ (pc = "staff" /\ staff_i' # staff_i) =>
                /\ staff_i' = staff_i + 1
                /\ staff_i <= Len(instance_data.staff)
                /\ needed > 0
                /\ req_i' = req_i
                /\ IF IsValidAssignment(instance_data, staff_assignments, CandidateOf(staff_i))
                   THEN /\ assignments' = Append(assignments, CandidateOf(staff_i))
                        /\ needed' = needed - 1
                   ELSE /\ assignments' = assignments
                        /\ needed' = needed
           /\ assignments' # assignments => (pc = "staff" /\ staff_i' = staff_i + 1)
         ]_vars

\* the first staff member was rejected and the second one committed
C13_Witness ==
    /\ pc = "staff"
    /\ Len(instance_data.staff) = 2
    /\ staff_i = 3
    /\ ~IsValidAssignment(instance_data, staff_assignments, CandidateOf(1))
    /\ CandidateOf(1) \notin { assignments[i] : i \in 1..Len(assignments) }
    /\ CandidateOf(2) \in { assignments[i] : i \in 1..Len(assignments) }

\* the (day, shift) pairs of the index and of the requirements
DayShiftKeys ==
    (DOMAIN day_shift_assignments)
    \cup { << InputRequirements[k].day, InputRequirements[k].shift_id >> :
            k \in 1..Len(InputRequirements) }

\* C14: for every (day, shift) pair the number of assignments in the index is
\* at most the largest required count among the requirements naming the pair,
\* and 0 for a pair no requirement names.
C14_NeverBeyondRequired ==
    \A key \in DayShiftKeys :
        LET naming == { k \in 1..Len(InputRequirements) :
                            << InputRequirements[k].day, InputRequirements[k].shift_id >> = key }
            count == Len(DictGet(day_shift_assignments, key, <<>>))
        IN IF naming = {}
           THEN count = 0
           ELSE \E k \in naming : count <= InputRequirements[k].requirement

\* the staff loop ends at needed = 0 although the next staff member's candidate
\* is valid
C14_Witness ==
    /\ pc = "staff"
    /\ needed = 0
    /\ staff_i <= Len(instance_data.staff)
    /\ IsValidAssignment(instance_data, staff_assignments, CandidateOf(staff_i))
    /\ Covered(Req) = Req.requirement

\* the requirements up to the loop position whose (day, shift) pair no other
\* of them names
SoleProcessed ==
    LET upto == { k \in 1..Len(cover_requirements) : k <= req_i }
    IN { k \in upto :
            \A l \in upto \ {k} :
                << cover_requirements[l].day, cover_requirements[l].shift_id >>
                    # << cover_requirements[k].day, cover_requirements[k].shift_id >> }

\* C15: while one requirement is processed each staff member receives at most
\* one new assignment: a commit is for the staff member at the loop position,
\* the position then moves on and never goes back within the requirement; so
\* a requirement that alone names its (day, shift) pair holds at most one
\* assignment per staff member, also when it ends unmet.
C15_OnePerStaffPerRequirement ==
    /\ [](\A k \in SoleProcessed : \A s \in StaffList :
            CountIn(assignments,
                    Assignment(s.id, cover_requirements[k].day,
                               cover_requirements[k].shift_id)) <= 1)
    /\ [][ /\ Len(assignments') > Len(assignments) =>
                /\ Len(assignments') = Len(assignments) + 1
                /\ pc = "staff" /\ pc' = "staff"
                /\ assignments'[Len(assignments')].staff_id = instance_data.staff[staff_i].id
                /\ staff_i' = staff_i + 1
                /\ req_i' = req_i
           /\ (pc = "staff" /\ pc' = "staff") => (staff_i' >= staff_i /\ req_i' = req_i)
           /\ (pc = "staff" /\ pc' = "req") => req_i' = req_i + 1
           /\ staff_i' < staff_i => (pc = "req" /\ pc' = "staff")
           /\ \A i, j \in 1..Len(instance_data.staff) :
                instance_data.staff[i].id = instance_data.staff[j].id => i = j
         ]_vars

\* an unmet requirement of two: the first staff member holds one assignment
\* for it and would still be accepted for it
C15_Witness ==
    /\ result = "False"
    /\ needed > 0
    /\ req_i \in SoleProcessed
    /\ CountIn(assignments, CandidateOf(1)) = 1
    /\ IsValidAssignment(instance_data, staff_assignments, CandidateOf(1))

\* C16: a call of is_valid_assignment leaves the flat list, the per-staff index
\* and the per-(day, shift) index unchanged, and a second call with the same
\* candidate returns the same result. A step of the staff loop that rejects
\* its candidate consists of such a call alone.
C16_ValidityReadOnly ==
    /\ [](\A s \in StaffList : \A day \in CandidateDays :
          \A k \in 1..Len(instance_data.shifts) :
            LET a == Assignment(s.id, day, instance_data.shifts[k].id)
                after == AfterValidityCheck(instance_data, staff_assignments, a)
            IN IsValidAssignment(instance_data, after, a)
                    <=> IsValidAssignment(instance_data, staff_assignments, a))
    /\ [][ (pc = "staff" /\ staff_i' # staff_i /\ Len(assignments') = Len(assignments)) =>
                /\ assignments' = assignments
                /\ staff_assignments' = staff_assignments
                /\ day_shift_assignments' = day_shift_assignments
         ]_vars

\* C17: no staff member holds two committed assignments on the same day,
\* neither two shifts on one day nor the same assignment twice.
C17_OneAssignmentPerDay ==
    \A i, j \in 1..Len(assignments) :
        ( /\ i # j
          /\ assignments[i].staff_id = assignments[j].staff_id )
        => assignments[i].day # assignments[j].day

\* the requirements are processed in an order that never goes back in day
ProcessedInDayOrder ==
    /\ pc # "start"
    /\ \A k, l \in 1..Len(cover_requirements) :
            k < l => cover_requirements[k].day <= cover_requirements[l].day

\* C18: if the priority order of the requirements is non-decreasing in day,
\* every staff member's longest run of calendar-consecutive worked days is at
\* most max_consecutive_shifts.
C18_RunBoundInDayOrder ==
    ProcessedInDayOrder =>
        \A s \in StaffList :
            \A d \in WorkedDays(s.id) :
                \E j \in 0..s.max_consecutive_shifts : (d + j) \notin WorkedDays(s.id)

\* in day order, a staff member with a full run of two days is the candidate
\* for the day after the run and is rejected
C18_Witness ==
    /\ ProcessedInDayOrder
    /\ StaffLoopRuns
    /\ LET s == instance_data.staff[staff_i]
       IN /\ s.max_consecutive_shifts = 2
          /\ {Req.day - 2, Req.day - 1} \subseteq WorkedDays(s.id)
          /\ Req.day \notin WorkedDays(s.id)
          /\ ~IsValidAssignment(instance_data, staff_assignments, Candidate)

TypeOK ==
    /\ pc \in {"start", "req", "staff", "done"}
    /\ result \in {"none", "True", "False"}
    /\ instance_data \in Instances
    /\ needed \in Int
====
